---- MODULE Spec2Model ----
(***************************************************************************)
(* A model of amd_gres_builder.py: the script that queries rocm-smi and    *)
(* lscpu and prints one SLURM gres.conf line per AMD GPU.                  *)
(*                                                                         *)
(* Text is modelled as sequences of code points, so that Python's string   *)
(* ordering, str(), int(), lower(), replace(), split() and join() are      *)
(* computed rather than assumed.  A Python dict is a sequence of           *)
(* <<key, value>> pairs in insertion order.  A card key "card<k>" is the   *)
(* natural number k.  An optional value is <<>> (None) or <<v>>.           *)
(***************************************************************************)
EXTENDS Integers, Sequences, FiniteSets, TLC

(***************************************************************************)
(* Bounds of the model.                                                    *)
(***************************************************************************)
MaxGpu == 2
MaxLines == 3
MaxTick == 2

(***************************************************************************)
(* The state of a run.                                                     *)
(***************************************************************************)
VARIABLES
    env,           \* the environment of the run
    pc,            \* "main", the six queries, "merge", "print", or an end
    calls,         \* the external tools invoked so far
    serial, uuid, file, links, type, cores,   \* the locals of get_gres_conf
    numa_to_cpus,  \* the local of _rocm_smi_get_cores
    gres_dict,     \* the joined records
    out,           \* standard output, line by line
    status,        \* the exit status, -1 while running
    clock,         \* the last tick read from the clock
    run,           \* 1, or 2 in the second of two runs
    prev_out,      \* standard output of the first run
    prev_clock,    \* the tick the first run read from the clock
    prev_script    \* the file name the script had in the first run

(***************************************************************************)
(* Text helpers.                                                           *)
(***************************************************************************)
None == <<>>
Some(v) == <<v>>

Min(a, b) == IF a <= b THEN a ELSE b

\* Python's str < str: lexicographic on code points, a proper prefix first.
RECURSIVE StrLess(_, _)
StrLess(a, b) ==
    IF b = <<>> THEN FALSE
    ELSE IF a = <<>> THEN TRUE
    ELSE IF Head(a) # Head(b) THEN Head(a) < Head(b)
    ELSE StrLess(Tail(a), Tail(b))

StrLeq(a, b) == ~StrLess(b, a)

\* str(n) for an integer n.
RECURSIVE Str(_)
Str(n) ==
    IF n < 0 THEN <<45>> \o Str(-n)
    ELSE IF n < 10 THEN <<48 + n>>
    ELSE Str(n \div 10) \o <<48 + (n % 10)>>

\* str.lower().  The simple lower-case mappings of Unicode (14.0, the
\* database of Python 3.11) as <<first, last, step, delta>>: every step-th
\* code point c of first..last maps to c + delta.
LowerRanges ==
    { <<65, 90, 1, 32>>, <<192, 214, 1, 32>>, <<216, 222, 1, 32>>,
      <<256, 302, 2, 1>>, <<306, 310, 2, 1>>, <<313, 327, 2, 1>>,
      <<330, 374, 2, 1>>, <<376, 376, 1, -121>>, <<377, 381, 2, 1>>,
      <<385, 385, 1, 210>>, <<386, 388, 2, 1>>, <<390, 390, 1, 206>>,
      <<391, 391, 1, 1>>, <<393, 394, 1, 205>>, <<395, 395, 1, 1>>,
      <<398, 398, 1, 79>>, <<399, 399, 1, 202>>, <<400, 400, 1, 203>>,
      <<401, 401, 1, 1>>, <<403, 403, 1, 205>>, <<404, 404, 1, 207>>,
      <<406, 406, 1, 211>>, <<407, 407, 1, 209>>, <<408, 408, 1, 1>>,
      <<412, 412, 1, 211>>, <<413, 413, 1, 213>>, <<415, 415, 1, 214>>,
      <<416, 420, 2, 1>>, <<422, 422, 1, 218>>, <<423, 423, 1, 1>>,
      <<425, 425, 1, 218>>, <<428, 428, 1, 1>>, <<430, 430, 1, 218>>,
      <<431, 431, 1, 1>>, <<433, 434, 1, 217>>, <<435, 437, 2, 1>>,
      <<439, 439, 1, 219>>, <<440, 440, 1, 1>>, <<444, 444, 1, 1>>,
      <<452, 452, 1, 2>>, <<453, 453, 1, 1>>, <<455, 455, 1, 2>>,
      <<456, 456, 1, 1>>, <<458, 458, 1, 2>>, <<459, 475, 2, 1>>,
      <<478, 494, 2, 1>>, <<497, 497, 1, 2>>, <<498, 500, 2, 1>>,
      <<502, 502, 1, -97>>, <<503, 503, 1, -56>>, <<504, 542, 2, 1>>,
      <<544, 544, 1, -130>>, <<546, 562, 2, 1>>, <<570, 570, 1, 10795>>,
      <<571, 571, 1, 1>>, <<573, 573, 1, -163>>, <<574, 574, 1, 10792>>,
      <<577, 577, 1, 1>>, <<579, 579, 1, -195>>, <<580, 580, 1, 69>>,
      <<581, 581, 1, 71>>, <<582, 590, 2, 1>>, <<880, 882, 2, 1>>,
      <<886, 886, 1, 1>>, <<895, 895, 1, 116>>, <<902, 902, 1, 38>>,
      <<904, 906, 1, 37>>, <<908, 908, 1, 64>>, <<910, 911, 1, 63>>,
      <<913, 929, 1, 32>>, <<931, 939, 1, 32>>, <<975, 975, 1, 8>>,
      <<984, 1006, 2, 1>>, <<1012, 1012, 1, -60>>, <<1015, 1015, 1, 1>>,
      <<1017, 1017, 1, -7>>, <<1018, 1018, 1, 1>>, <<1021, 1023, 1, -130>>,
      <<1024, 1039, 1, 80>>, <<1040, 1071, 1, 32>>, <<1120, 1152, 2, 1>>,
      <<1162, 1214, 2, 1>>, <<1216, 1216, 1, 15>>, <<1217, 1229, 2, 1>>,
      <<1232, 1326, 2, 1>>, <<1329, 1366, 1, 48>>, <<4256, 4293, 1, 7264>>,
      <<4295, 4295, 1, 7264>>, <<4301, 4301, 1, 7264>>, <<5024, 5103, 1, 38864>>,
      <<5104, 5109, 1, 8>>, <<7312, 7354, 1, -3008>>, <<7357, 7359, 1, -3008>>,
      <<7680, 7828, 2, 1>>, <<7838, 7838, 1, -7615>>, <<7840, 7934, 2, 1>>,
      <<7944, 7951, 1, -8>>, <<7960, 7965, 1, -8>>, <<7976, 7983, 1, -8>>,
      <<7992, 7999, 1, -8>>, <<8008, 8013, 1, -8>>, <<8025, 8031, 2, -8>>,
      <<8040, 8047, 1, -8>>, <<8072, 8079, 1, -8>>, <<8088, 8095, 1, -8>>,
      <<8104, 8111, 1, -8>>, <<8120, 8121, 1, -8>>, <<8122, 8123, 1, -74>>,
      <<8124, 8124, 1, -9>>, <<8136, 8139, 1, -86>>, <<8140, 8140, 1, -9>>,
      <<8152, 8153, 1, -8>>, <<8154, 8155, 1, -100>>, <<8168, 8169, 1, -8>>,
      <<8170, 8171, 1, -112>>, <<8172, 8172, 1, -7>>, <<8184, 8185, 1, -128>>,
      <<8186, 8187, 1, -126>>, <<8188, 8188, 1, -9>>, <<8486, 8486, 1, -7517>>,
      <<8490, 8490, 1, -8383>>, <<8491, 8491, 1, -8262>>, <<8498, 8498, 1, 28>>,
      <<8544, 8559, 1, 16>>, <<8579, 8579, 1, 1>>, <<9398, 9423, 1, 26>>,
      <<11264, 11311, 1, 48>>, <<11360, 11360, 1, 1>>, <<11362, 11362, 1, -10743>>,
      <<11363, 11363, 1, -3814>>, <<11364, 11364, 1, -10727>>, <<11367, 11371, 2, 1>>,
      <<11373, 11373, 1, -10780>>, <<11374, 11374, 1, -10749>>, <<11375, 11375, 1, -10783>>,
      <<11376, 11376, 1, -10782>>, <<11378, 11378, 1, 1>>, <<11381, 11381, 1, 1>>,
      <<11390, 11391, 1, -10815>>, <<11392, 11490, 2, 1>>, <<11499, 11501, 2, 1>>,
      <<11506, 11506, 1, 1>>, <<42560, 42604, 2, 1>>, <<42624, 42650, 2, 1>>,
      <<42786, 42798, 2, 1>>, <<42802, 42862, 2, 1>>, <<42873, 42875, 2, 1>>,
      <<42877, 42877, 1, -35332>>, <<42878, 42886, 2, 1>>, <<42891, 42891, 1, 1>>,
      <<42893, 42893, 1, -42280>>, <<42896, 42898, 2, 1>>, <<42902, 42920, 2, 1>>,
      <<42922, 42922, 1, -42308>>, <<42923, 42923, 1, -42319>>, <<42924, 42924, 1, -42315>>,
      <<42925, 42925, 1, -42305>>, <<42926, 42926, 1, -42308>>, <<42928, 42928, 1, -42258>>,
      <<42929, 42929, 1, -42282>>, <<42930, 42930, 1, -42261>>, <<42931, 42931, 1, 928>>,
      <<42932, 42946, 2, 1>>, <<42948, 42948, 1, -48>>, <<42949, 42949, 1, -42307>>,
      <<42950, 42950, 1, -35384>>, <<42951, 42953, 2, 1>>, <<42960, 42960, 1, 1>>,
      <<42966, 42968, 2, 1>>, <<42997, 42997, 1, 1>>, <<65313, 65338, 1, 32>>,
      <<66560, 66599, 1, 40>>, <<66736, 66771, 1, 40>>, <<66928, 66938, 1, 39>>,
      <<66940, 66954, 1, 39>>, <<66956, 66962, 1, 39>>, <<66964, 66965, 1, 39>>,
      <<68736, 68786, 1, 64>>, <<71840, 71871, 1, 32>>, <<93760, 93791, 1, 32>>,
      <<125184, 125217, 1, 34>> }

\* The case-ignorable code points, as <<first, last>>.
CaseIgnorableRanges ==
    { <<39, 39>>, <<46, 46>>, <<58, 58>>, <<94, 94>>, <<96, 96>>,
      <<168, 168>>, <<173, 173>>, <<175, 175>>, <<180, 180>>, <<183, 184>>,
      <<688, 879>>, <<884, 885>>, <<890, 890>>, <<900, 901>>, <<903, 903>>,
      <<1155, 1161>>, <<1369, 1369>>, <<1375, 1375>>, <<1425, 1469>>, <<1471, 1471>>,
      <<1473, 1474>>, <<1476, 1477>>, <<1479, 1479>>, <<1524, 1524>>, <<1536, 1541>>,
      <<1552, 1562>>, <<1564, 1564>>, <<1600, 1600>>, <<1611, 1631>>, <<1648, 1648>>,
      <<1750, 1757>>, <<1759, 1768>>, <<1770, 1773>>, <<1807, 1807>>, <<1809, 1809>>,
      <<1840, 1866>>, <<1958, 1968>>, <<2027, 2037>>, <<2042, 2042>>, <<2045, 2045>>,
      <<2070, 2093>>, <<2137, 2139>>, <<2184, 2184>>, <<2192, 2193>>, <<2200, 2207>>,
      <<2249, 2306>>, <<2362, 2362>>, <<2364, 2364>>, <<2369, 2376>>, <<2381, 2381>>,
      <<2385, 2391>>, <<2402, 2403>>, <<2417, 2417>>, <<2433, 2433>>, <<2492, 2492>>,
      <<2497, 2500>>, <<2509, 2509>>, <<2530, 2531>>, <<2558, 2558>>, <<2561, 2562>>,
      <<2620, 2620>>, <<2625, 2626>>, <<2631, 2632>>, <<2635, 2637>>, <<2641, 2641>>,
      <<2672, 2673>>, <<2677, 2677>>, <<2689, 2690>>, <<2748, 2748>>, <<2753, 2757>>,
      <<2759, 2760>>, <<2765, 2765>>, <<2786, 2787>>, <<2810, 2815>>, <<2817, 2817>>,
      <<2876, 2876>>, <<2879, 2879>>, <<2881, 2884>>, <<2893, 2893>>, <<2901, 2902>>,
      <<2914, 2915>>, <<2946, 2946>>, <<3008, 3008>>, <<3021, 3021>>, <<3072, 3072>>,
      <<3076, 3076>>, <<3132, 3132>>, <<3134, 3136>>, <<3142, 3144>>, <<3146, 3149>>,
      <<3157, 3158>>, <<3170, 3171>>, <<3201, 3201>>, <<3260, 3260>>, <<3263, 3263>>,
      <<3270, 3270>>, <<3276, 3277>>, <<3298, 3299>>, <<3328, 3329>>, <<3387, 3388>>,
      <<3393, 3396>>, <<3405, 3405>>, <<3426, 3427>>, <<3457, 3457>>, <<3530, 3530>>,
      <<3538, 3540>>, <<3542, 3542>>, <<3633, 3633>>, <<3636, 3642>>, <<3654, 3662>>,
      <<3761, 3761>>, <<3764, 3772>>, <<3782, 3782>>, <<3784, 3789>>, <<3864, 3865>>,
      <<3893, 3893>>, <<3895, 3895>>, <<3897, 3897>>, <<3953, 3966>>, <<3968, 3972>>,
      <<3974, 3975>>, <<3981, 3991>>, <<3993, 4028>>, <<4038, 4038>>, <<4141, 4144>>,
      <<4146, 4151>>, <<4153, 4154>>, <<4157, 4158>>, <<4184, 4185>>, <<4190, 4192>>,
      <<4209, 4212>>, <<4226, 4226>>, <<4229, 4230>>, <<4237, 4237>>, <<4253, 4253>>,
      <<4348, 4348>>, <<4957, 4959>>, <<5906, 5908>>, <<5938, 5939>>, <<5970, 5971>>,
      <<6002, 6003>>, <<6068, 6069>>, <<6071, 6077>>, <<6086, 6086>>, <<6089, 6099>>,
      <<6103, 6103>>, <<6109, 6109>>, <<6155, 6159>>, <<6211, 6211>>, <<6277, 6278>>,
      <<6313, 6313>>, <<6432, 6434>>, <<6439, 6440>>, <<6450, 6450>>, <<6457, 6459>>,
      <<6679, 6680>>, <<6683, 6683>>, <<6742, 6742>>, <<6744, 6750>>, <<6752, 6752>>,
      <<6754, 6754>>, <<6757, 6764>>, <<6771, 6780>>, <<6783, 6783>>, <<6823, 6823>>,
      <<6832, 6862>>, <<6912, 6915>>, <<6964, 6964>>, <<6966, 6970>>, <<6972, 6972>>,
      <<6978, 6978>>, <<7019, 7027>>, <<7040, 7041>>, <<7074, 7077>>, <<7080, 7081>>,
      <<7083, 7085>>, <<7142, 7142>>, <<7144, 7145>>, <<7149, 7149>>, <<7151, 7153>>,
      <<7212, 7219>>, <<7222, 7223>>, <<7288, 7293>>, <<7376, 7378>>, <<7380, 7392>>,
      <<7394, 7400>>, <<7405, 7405>>, <<7412, 7412>>, <<7416, 7417>>, <<7468, 7530>>,
      <<7544, 7544>>, <<7579, 7679>>, <<8125, 8125>>, <<8127, 8129>>, <<8141, 8143>>,
      <<8157, 8159>>, <<8173, 8175>>, <<8189, 8190>>, <<8203, 8207>>, <<8216, 8217>>,
      <<8228, 8228>>, <<8231, 8231>>, <<8234, 8238>>, <<8288, 8292>>, <<8294, 8303>>,
      <<8305, 8305>>, <<8319, 8319>>, <<8336, 8348>>, <<8400, 8432>>, <<11388, 11389>>,
      <<11503, 11505>>, <<11631, 11631>>, <<11647, 11647>>, <<11744, 11775>>, <<11823, 11823>>,
      <<12293, 12293>>, <<12330, 12333>>, <<12337, 12341>>, <<12347, 12347>>, <<12441, 12446>>,
      <<12540, 12542>>, <<40981, 40981>>, <<42232, 42237>>, <<42508, 42508>>, <<42607, 42610>>,
      <<42612, 42621>>, <<42623, 42623>>, <<42652, 42655>>, <<42736, 42737>>, <<42752, 42785>>,
      <<42864, 42864>>, <<42888, 42890>>, <<42994, 42996>>, <<43000, 43001>>, <<43010, 43010>>,
      <<43014, 43014>>, <<43019, 43019>>, <<43045, 43046>>, <<43052, 43052>>, <<43204, 43205>>,
      <<43232, 43249>>, <<43263, 43263>>, <<43302, 43309>>, <<43335, 43345>>, <<43392, 43394>>,
      <<43443, 43443>>, <<43446, 43449>>, <<43452, 43453>>, <<43471, 43471>>, <<43493, 43494>>,
      <<43561, 43566>>, <<43569, 43570>>, <<43573, 43574>>, <<43587, 43587>>, <<43596, 43596>>,
      <<43632, 43632>>, <<43644, 43644>>, <<43696, 43696>>, <<43698, 43700>>, <<43703, 43704>>,
      <<43710, 43711>>, <<43713, 43713>>, <<43741, 43741>>, <<43756, 43757>>, <<43763, 43764>>,
      <<43766, 43766>>, <<43867, 43871>>, <<43881, 43883>>, <<44005, 44005>>, <<44008, 44008>>,
      <<44013, 44013>>, <<64286, 64286>>, <<64434, 64450>>, <<65024, 65039>>, <<65043, 65043>>,
      <<65056, 65071>>, <<65106, 65106>>, <<65109, 65109>>, <<65279, 65279>>, <<65287, 65287>>,
      <<65294, 65294>>, <<65306, 65306>>, <<65342, 65342>>, <<65344, 65344>>, <<65392, 65392>>,
      <<65438, 65439>>, <<65507, 65507>>, <<65529, 65531>>, <<66045, 66045>>, <<66272, 66272>>,
      <<66422, 66426>>, <<67456, 67461>>, <<67463, 67504>>, <<67506, 67514>>, <<68097, 68099>>,
      <<68101, 68102>>, <<68108, 68111>>, <<68152, 68154>>, <<68159, 68159>>, <<68325, 68326>>,
      <<68900, 68903>>, <<69291, 69292>>, <<69446, 69456>>, <<69506, 69509>>, <<69633, 69633>>,
      <<69688, 69702>>, <<69744, 69744>>, <<69747, 69748>>, <<69759, 69761>>, <<69811, 69814>>,
      <<69817, 69818>>, <<69821, 69821>>, <<69826, 69826>>, <<69837, 69837>>, <<69888, 69890>>,
      <<69927, 69931>>, <<69933, 69940>>, <<70003, 70003>>, <<70016, 70017>>, <<70070, 70078>>,
      <<70089, 70092>>, <<70095, 70095>>, <<70191, 70193>>, <<70196, 70196>>, <<70198, 70199>>,
      <<70206, 70206>>, <<70367, 70367>>, <<70371, 70378>>, <<70400, 70401>>, <<70459, 70460>>,
      <<70464, 70464>>, <<70502, 70508>>, <<70512, 70516>>, <<70712, 70719>>, <<70722, 70724>>,
      <<70726, 70726>>, <<70750, 70750>>, <<70835, 70840>>, <<70842, 70842>>, <<70847, 70848>>,
      <<70850, 70851>>, <<71090, 71093>>, <<71100, 71101>>, <<71103, 71104>>, <<71132, 71133>>,
      <<71219, 71226>>, <<71229, 71229>>, <<71231, 71232>>, <<71339, 71339>>, <<71341, 71341>>,
      <<71344, 71349>>, <<71351, 71351>>, <<71453, 71455>>, <<71458, 71461>>, <<71463, 71467>>,
      <<71727, 71735>>, <<71737, 71738>>, <<71995, 71996>>, <<71998, 71998>>, <<72003, 72003>>,
      <<72148, 72151>>, <<72154, 72155>>, <<72160, 72160>>, <<72193, 72202>>, <<72243, 72248>>,
      <<72251, 72254>>, <<72263, 72263>>, <<72273, 72278>>, <<72281, 72283>>, <<72330, 72342>>,
      <<72344, 72345>>, <<72752, 72758>>, <<72760, 72765>>, <<72767, 72767>>, <<72850, 72871>>,
      <<72874, 72880>>, <<72882, 72883>>, <<72885, 72886>>, <<73009, 73014>>, <<73018, 73018>>,
      <<73020, 73021>>, <<73023, 73029>>, <<73031, 73031>>, <<73104, 73105>>, <<73109, 73109>>,
      <<73111, 73111>>, <<73459, 73460>>, <<78896, 78904>>, <<92912, 92916>>, <<92976, 92982>>,
      <<92992, 92995>>, <<94031, 94031>>, <<94095, 94111>>, <<94176, 94177>>, <<94179, 94180>>,
      <<110576, 110579>>, <<110581, 110587>>, <<110589, 110590>>, <<113821, 113822>>, <<113824, 113827>>,
      <<118528, 118573>>, <<118576, 118598>>, <<119143, 119145>>, <<119155, 119170>>, <<119173, 119179>>,
      <<119210, 119213>>, <<119362, 119364>>, <<121344, 121398>>, <<121403, 121452>>, <<121461, 121461>>,
      <<121476, 121476>>, <<121499, 121503>>, <<121505, 121519>>, <<122880, 122886>>, <<122888, 122904>>,
      <<122907, 122913>>, <<122915, 122916>>, <<122918, 122922>>, <<123184, 123197>>, <<123566, 123566>>,
      <<123628, 123631>>, <<125136, 125142>>, <<125252, 125259>>, <<127995, 127999>>, <<917505, 917505>>,
      <<917536, 917631>>, <<917760, 917999>> }

\* The cased code points that are not case-ignorable, as <<first, last>>.
CasedRanges ==
    { <<65, 90>>, <<97, 122>>, <<170, 170>>, <<181, 181>>, <<186, 186>>,
      <<192, 214>>, <<216, 246>>, <<248, 442>>, <<444, 447>>, <<452, 659>>,
      <<661, 687>>, <<880, 883>>, <<886, 887>>, <<891, 893>>, <<895, 895>>,
      <<902, 902>>, <<904, 906>>, <<908, 908>>, <<910, 929>>, <<931, 1013>>,
      <<1015, 1153>>, <<1162, 1327>>, <<1329, 1366>>, <<1376, 1416>>, <<4256, 4293>>,
      <<4295, 4295>>, <<4301, 4301>>, <<4304, 4346>>, <<4349, 4351>>, <<5024, 5109>>,
      <<5112, 5117>>, <<7296, 7304>>, <<7312, 7354>>, <<7357, 7359>>, <<7424, 7467>>,
      <<7531, 7543>>, <<7545, 7578>>, <<7680, 7957>>, <<7960, 7965>>, <<7968, 8005>>,
      <<8008, 8013>>, <<8016, 8023>>, <<8025, 8025>>, <<8027, 8027>>, <<8029, 8029>>,
      <<8031, 8061>>, <<8064, 8116>>, <<8118, 8124>>, <<8126, 8126>>, <<8130, 8132>>,
      <<8134, 8140>>, <<8144, 8147>>, <<8150, 8155>>, <<8160, 8172>>, <<8178, 8180>>,
      <<8182, 8188>>, <<8450, 8450>>, <<8455, 8455>>, <<8458, 8467>>, <<8469, 8469>>,
      <<8473, 8477>>, <<8484, 8484>>, <<8486, 8486>>, <<8488, 8488>>, <<8490, 8493>>,
      <<8495, 8500>>, <<8505, 8505>>, <<8508, 8511>>, <<8517, 8521>>, <<8526, 8526>>,
      <<8544, 8575>>, <<8579, 8580>>, <<9398, 9449>>, <<11264, 11387>>, <<11390, 11492>>,
      <<11499, 11502>>, <<11506, 11507>>, <<11520, 11557>>, <<11559, 11559>>, <<11565, 11565>>,
      <<42560, 42605>>, <<42624, 42651>>, <<42786, 42863>>, <<42865, 42887>>, <<42891, 42894>>,
      <<42896, 42954>>, <<42960, 42961>>, <<42963, 42963>>, <<42965, 42969>>, <<42997, 42998>>,
      <<43002, 43002>>, <<43824, 43866>>, <<43872, 43880>>, <<43888, 43967>>, <<64256, 64262>>,
      <<64275, 64279>>, <<65313, 65338>>, <<65345, 65370>>, <<66560, 66639>>, <<66736, 66771>>,
      <<66776, 66811>>, <<66928, 66938>>, <<66940, 66954>>, <<66956, 66962>>, <<66964, 66965>>,
      <<66967, 66977>>, <<66979, 66993>>, <<66995, 67001>>, <<67003, 67004>>, <<68736, 68786>>,
      <<68800, 68850>>, <<71840, 71903>>, <<93760, 93823>>, <<119808, 119892>>, <<119894, 119964>>,
      <<119966, 119967>>, <<119970, 119970>>, <<119973, 119974>>, <<119977, 119980>>, <<119982, 119993>>,
      <<119995, 119995>>, <<119997, 120003>>, <<120005, 120069>>, <<120071, 120074>>, <<120077, 120084>>,
      <<120086, 120092>>, <<120094, 120121>>, <<120123, 120126>>, <<120128, 120132>>, <<120134, 120134>>,
      <<120138, 120144>>, <<120146, 120485>>, <<120488, 120512>>, <<120514, 120538>>, <<120540, 120570>>,
      <<120572, 120596>>, <<120598, 120628>>, <<120630, 120654>>, <<120656, 120686>>, <<120688, 120712>>,
      <<120714, 120744>>, <<120746, 120770>>, <<120772, 120779>>, <<122624, 122633>>, <<122635, 122654>>,
      <<125184, 125251>>, <<127280, 127305>>, <<127312, 127337>>, <<127344, 127369>> }

InLowerRange(c, r) == c >= r[1] /\ c <= r[2] /\ (c - r[1]) % r[3] = 0
SimpleLower(c) ==
    IF c < 128 THEN (IF c >= 65 /\ c <= 90 THEN c + 32 ELSE c)
    ELSE IF \E r \in LowerRanges : InLowerRange(c, r)
    THEN c + (CHOOSE r \in LowerRanges : InLowerRange(c, r))[4]
    ELSE c

CaseIgnorable(c) == \E r \in CaseIgnorableRanges : c >= r[1] /\ c <= r[2]
Cased(c) == \E r \in CasedRanges : c >= r[1] /\ c <= r[2]

\* A capital sigma is final when the nearest code point before it that is
\* not case-ignorable is cased, and the nearest one after it is not.
FinalSigma(s, i) ==
    LET before == {j \in 1..(i - 1) : ~CaseIgnorable(s[j])}
        after == {j \in (i + 1)..Len(s) : ~CaseIgnorable(s[j])}
    IN /\ before # {}
       /\ Cased(s[CHOOSE j \in before : \A k \in before : k <= j])
       /\ \/ after = {}
          \/ ~Cased(s[CHOOSE j \in after : \A k \in after : j <= k])

\* The lower case of the code point at position i: capital sigma by its
\* context, capital I with dot above as two code points.
LowerAt(s, i) ==
    IF s[i] = 931 THEN <<IF FinalSigma(s, i) THEN 962 ELSE 963>>
    ELSE IF s[i] = 304 THEN <<105, 775>>
    ELSE <<SimpleLower(s[i])>>

RECURSIVE LowerFrom(_, _)
LowerFrom(s, i) == IF i > Len(s) THEN <<>> ELSE LowerAt(s, i) \o LowerFrom(s, i + 1)

Lower(s) == LowerFrom(s, 1)

IsPrefix(p, s) == Len(p) <= Len(s) /\ SubSeq(s, 1, Len(p)) = p

\* str.replace(old, new), old non-empty: leftmost non-overlapping matches.
RECURSIVE Replace(_, _, _)
Replace(s, old, new) ==
    IF s = <<>> THEN <<>>
    ELSE IF IsPrefix(old, s)
         THEN new \o Replace(SubSeq(s, Len(old) + 1, Len(s)), old, new)
         ELSE <<Head(s)>> \o Replace(Tail(s), old, new)

\* str.split(ch): the list of the pieces between the occurrences of ch.
RECURSIVE Split(_, _)
Split(s, ch) ==
    IF \A i \in 1..Len(s) : s[i] # ch THEN <<s>>
    ELSE LET p == CHOOSE i \in 1..Len(s) : s[i] = ch /\ \A j \in 1..(i - 1) : s[j] # ch
         IN <<SubSeq(s, 1, p - 1)>> \o Split(SubSeq(s, p + 1, Len(s)), ch)

\* sep.join(parts)
RECURSIVE Join(_, _)
Join(parts, sep) ==
    IF parts = <<>> THEN <<>>
    ELSE IF Len(parts) = 1 THEN parts[1]
    ELSE parts[1] \o sep \o Join(Tail(parts), sep)

\* int(s) of a str.  The white space int() strips from both ends: the ASCII
\* characters \t \n \v \f \r and the space, and the white space beyond ASCII.
IntSpace ==
    {9, 10, 11, 12, 13, 32, 133, 160, 5760} \cup (8192..8202)
       \cup {8232, 8233, 8239, 8287, 12288}

\* The code point of the digit zero of every decimal digit block of Unicode
\* (14.0, the database of Python 3.11); a block is ten consecutive code points.
DecimalZeros ==
    {48, 1632, 1776, 1984, 2406, 2534, 2662, 2790,
     2918, 3046, 3174, 3302, 3430, 3558, 3664, 3792,
     3872, 4160, 4240, 6112, 6160, 6470, 6608, 6784,
     6800, 6992, 7088, 7232, 7248, 42528, 43216, 43264,
     43472, 43504, 43600, 44016, 65296, 66720, 68912, 69734,
     69872, 69942, 70096, 70384, 70736, 70864, 71248, 71360,
     71472, 71904, 72016, 72784, 73040, 73120, 92768, 92864,
     93008, 120782, 120792, 120802, 120812, 120822, 123200, 123632,
     125264, 130032}

IsDecimal(c) == \E z \in DecimalZeros : c >= z /\ c <= z + 9
DigitValue(c) == c - (CHOOSE z \in DecimalZeros : c >= z /\ c <= z + 9)

RECURSIVE LStrip(_)
LStrip(s) == IF s # <<>> /\ Head(s) \in IntSpace THEN LStrip(Tail(s)) ELSE s
RECURSIVE RStrip(_)
RStrip(s) ==
    IF s # <<>> /\ s[Len(s)] \in IntSpace THEN RStrip(SubSeq(s, 1, Len(s) - 1)) ELSE s
Strip(s) == RStrip(LStrip(s))

\* The text after the white space and one optional sign.
Unsigned(s) ==
    LET t == Strip(s)
    IN IF t # <<>> /\ Head(t) \in {43, 45} THEN Tail(t) ELSE t

\* sys.get_int_max_str_digits(), as Python sets it by default.
MaxStrDigits == 4300

\* int(s) does not raise ValueError: decimal digits, with single underscores
\* between digits only, and no more digits than the conversion limit.
IntOk(s) ==
    LET u == Unsigned(s)
    IN /\ u # <<>>
       /\ Cardinality({i \in 1..Len(u) : u[i] # 95}) <= MaxStrDigits
       /\ \A i \in 1..Len(u) :
             \/ IsDecimal(u[i])
             \/ /\ u[i] = 95
                /\ i > 1 /\ i < Len(u)
                /\ IsDecimal(u[i - 1]) /\ IsDecimal(u[i + 1])

RECURSIVE DigitsValue(_)
DigitsValue(u) ==
    IF u = <<>> THEN 0
    ELSE IF u[Len(u)] = 95 THEN DigitsValue(SubSeq(u, 1, Len(u) - 1))
    ELSE 10 * DigitsValue(SubSeq(u, 1, Len(u) - 1)) + DigitValue(u[Len(u)])

\* int(s) when IntOk(s).
ParseInt(s) ==
    LET t == Strip(s)
    IN IF Head(t) = 45 THEN -DigitsValue(Unsigned(s)) ELSE DigitsValue(Unsigned(s))

\* sorted(list of str): stable insertion sort under Python's string order.
RECURSIVE InsertStr(_, _)
InsertStr(sorted, x) ==
    IF sorted = <<>> THEN <<x>>
    ELSE IF StrLess(x, Head(sorted)) THEN <<x>> \o sorted
    ELSE <<Head(sorted)>> \o InsertStr(Tail(sorted), x)

RECURSIVE SortedStr(_)
SortedStr(l) == IF l = <<>> THEN <<>> ELSE InsertStr(SortedStr(SubSeq(l, 1, Len(l) - 1)), l[Len(l)])

(***************************************************************************)
(* Ordered dictionaries.                                                   *)
(***************************************************************************)
Keys(d) == [i \in 1..Len(d) |-> d[i][1]]
Values(d) == [i \in 1..Len(d) |-> d[i][2]]
KeySet(d) == {d[i][1] : i \in 1..Len(d)}
HasKey(d, k) == k \in KeySet(d)
Get(d, k) == d[CHOOSE i \in 1..Len(d) : d[i][1] = k][2]

(***************************************************************************)
(* Literals of the script.                                                 *)
(***************************************************************************)
S_MINUS1 == <<45, 49>>
S_0 == <<48>>
S_1 == <<49>>
S_PCIE == <<80, 67, 73, 69>>
S_XGMI == <<88, 71, 77, 73>>
S_COMMA == <<44>>
S_DASH == <<45>>
S_GPU == <<103, 112, 117>>
S_OFF == <<111, 102, 102>>
S_AMD_GPU_ENV == <<97, 109, 100, 95, 103, 112, 117, 95, 101, 110, 118>>
S_DEV_DRI == <<47, 100, 101, 118, 47, 100, 114, 105>>
S_BY_PATH == <<47, 100, 101, 118, 47, 100, 114, 105, 47, 98, 121, 45, 112, 97, 116, 104, 47, 112, 99, 105, 45>>
S_RENDER == <<45, 114, 101, 110, 100, 101, 114>>
S_ROCM_PATH == <<82, 79, 67, 77, 95, 80, 65, 84, 72>>

_GRES_FIELDS_ORDER ==
    <<"NodeName", "Name", "Type", "Autodetect", "Count", "Cores", "Links", "Flags", "File">>

\* "Instinct MI100" .. "Instinct MI300X" and their short names.
_RSMI_CARD_SERIE_MAP ==
    << << <<73, 110, 115, 116, 105, 110, 99, 116, 32, 77, 73, 49, 48, 48>>, <<109, 105, 49, 48, 48>> >>,
       << <<73, 110, 115, 116, 105, 110, 99, 116, 32, 77, 73, 50, 49, 48>>, <<109, 105, 50, 49, 48>> >>,
       << <<73, 110, 115, 116, 105, 110, 99, 116, 32, 77, 73, 50, 53, 48>>, <<109, 105, 50, 53, 48>> >>,
       << <<73, 110, 115, 116, 105, 110, 99, 116, 32, 77, 73, 50, 53, 48, 88>>, <<109, 105, 50, 53, 48, 120>> >>,
       << <<73, 110, 115, 116, 105, 110, 99, 116, 32, 77, 73, 51, 48, 48, 65>>, <<109, 105, 51, 48, 48, 97>> >>,
       << <<73, 110, 115, 116, 105, 110, 99, 116, 32, 77, 73, 51, 48, 48, 88>>, <<109, 105, 51, 48, 48, 120>> >> >>

\* _ROCM_PATH/bin/rocm-smi
_RSMI_BIN(rocm_path) == rocm_path \o <<47, 98, 105, 110, 47, 114, 111, 99, 109, 45, 115, 109, 105>>

(***************************************************************************)
(* The query layer.  Every query returns [ok, res]: ok is FALSE when the   *)
(* Python function raises (a failed assert, a KeyError, an OSError, ...).  *)
(***************************************************************************)
Fail == [ok |-> FALSE, res |-> <<>>]
Ok(r) == [ok |-> TRUE, res |-> r]

\* _rocm_smi_get_serial: {"Serial": val["serial number"]} per card key.
_rocm_smi_get_serial(rsmi_dict) ==
    IF \E i \in 1..Len(rsmi_dict) : rsmi_dict[i][2] = None THEN Fail
    ELSE Ok([i \in 1..Len(rsmi_dict) |-> <<rsmi_dict[i][1], [Serial |-> rsmi_dict[i][2][1]]>>])

\* _rocm_smi_get_uuid: {"UUID": val["unique id"]} per card key.
_rocm_smi_get_uuid(rsmi_dict) ==
    IF \E i \in 1..Len(rsmi_dict) : rsmi_dict[i][2] = None THEN Fail
    ELSE Ok([i \in 1..Len(rsmi_dict) |-> <<rsmi_dict[i][1], [UUID |-> rsmi_dict[i][2][1]]>>])

\* The 'by-path' symlink built from a PCI bus value.
ByPath(pci_bus) == S_BY_PATH \o Lower(pci_bus) \o S_RENDER

\* _rocm_smi_get_file: symlinks maps a by-path link to abspath(readlink(link)).
_rocm_smi_get_file(rsmi_dict, symlinks) ==
    IF \E i \in 1..Len(rsmi_dict) :
          \/ rsmi_dict[i][2] = None
          \/ ~HasKey(symlinks, ByPath(rsmi_dict[i][2][1]))
    THEN Fail
    ELSE Ok([i \in 1..Len(rsmi_dict) |->
               <<rsmi_dict[i][1],
                 [File |-> S_DEV_DRI \o Get(symlinks, ByPath(rsmi_dict[i][2][1]))]>>])

\* _RSMI_CARD_SERIE_MAP.get(card_serie, card_serie.replace(" ", "_").lower())
ShortName(card_serie) ==
    IF HasKey(_RSMI_CARD_SERIE_MAP, card_serie)
    THEN Get(_RSMI_CARD_SERIE_MAP, card_serie)
    ELSE Lower(Replace(card_serie, <<32>>, <<95>>))

\* _rocm_smi_get_type
_rocm_smi_get_type(rsmi_dict) ==
    IF \E i \in 1..Len(rsmi_dict) : rsmi_dict[i][2] = None THEN Fail
    ELSE Ok([i \in 1..Len(rsmi_dict) |->
               <<rsmi_dict[i][1], [Type |-> ShortName(rsmi_dict[i][2][1])]>>])

\* A loop body that stores GPU_i->GPU_j only.
StoreLinkOneWay(res, i, j, link_ij) == [res EXCEPT ![i + 1][j + 1] = link_ij]

\* The two stores of the loop body: GPU_i->GPU_j, then GPU_j->GPU_i.
StoreLink(res, i, j, link_ij) ==
    LET r1 == [res EXCEPT ![i + 1][j + 1] = link_ij]
    IN [r1 EXCEPT ![j + 1][i + 1] = link_ij]

\* The loops over i and j, iteration p = i * nb_gpu + j onwards.
RECURSIVE LinksLoop(_, _, _, _)
LinksLoop(res, link, nb_gpu, p) ==
    IF p >= nb_gpu * nb_gpu THEN res
    ELSE LET i == p \div nb_gpu
             j == p % nb_gpu
             link_ij == Replace(Replace(link[<<i, j>>], S_PCIE, S_0), S_XGMI, S_1)
         IN LinksLoop(IF link_ij # <<>> THEN StoreLink(res, i, j, link_ij) ELSE res,
                      link, nb_gpu, p + 1)

\* The matrix of _rocm_smi_get_links: row k + 1 is the Links list of card k.
LinkMatrix(topo) ==
    LET nb_gpu == Len(topo.cards)
    IN LinksLoop([i \in 1..nb_gpu |-> [j \in 1..nb_gpu |-> S_MINUS1]], topo.link, nb_gpu, 0)

\* _rocm_smi_get_links: keys card0 .. card<nb_gpu - 1>; the "system" entry is
\* read in every iteration of the loops.
_rocm_smi_get_links(topo) ==
    IF Len(topo.cards) > 0 /\ ~topo.system THEN Fail
    ELSE LET m == LinkMatrix(topo)
         IN Ok([k \in 1..Len(topo.cards) |-> <<k - 1, [Links |-> m[k]]>>])

(***************************************************************************)
(* The CPU topology layer.                                                 *)
(***************************************************************************)
SeqMin(val) == CHOOSE m \in {val[i] : i \in 1..Len(val)} : \A i \in 1..Len(val) : m <= val[i]
SeqMax(val) == CHOOSE m \in {val[i] : i \in 1..Len(val)} : \A i \in 1..Len(val) : m >= val[i]

\* The conversion of one node's list of CPUs.
CpuString(val) ==
    LET cpu_min == SeqMin(val)
        cpu_max == SeqMax(val)
    IN IF {val[i] : i \in 1..Len(val)} = cpu_min..cpu_max
       THEN Str(cpu_min) \o S_DASH \o Str(cpu_max)
       ELSE Join(SortedStr([i \in 1..Len(val) |-> Str(val[i])]), S_COMMA)

LineUsed(line) == line # <<>> /\ line[1] # 35

\* int(data[0]) and int(data[1]) raise neither IndexError nor ValueError.
LineOk(line) ==
    LET data == Split(line, 44)
    IN Len(data) >= 2 /\ IntOk(data[1]) /\ IntOk(data[2])

\* res[int(data[0])].append(int(data[1])) over the lines, in order.
RECURSIVE NumaLists(_, _)
NumaLists(lines, res) ==
    IF lines = <<>> THEN res
    ELSE IF ~LineUsed(Head(lines)) THEN NumaLists(Tail(lines), res)
    ELSE LET data == Split(Head(lines), 44)
             node == ParseInt(data[1])
             cpu == ParseInt(data[2])
             at == IF HasKey(res, node)
                   THEN CHOOSE i \in 1..Len(res) : res[i][1] = node
                   ELSE 0
         IN NumaLists(Tail(lines),
                      IF at = 0 THEN Append(res, <<node, <<cpu>>>>)
                      ELSE [res EXCEPT ![at][2] = Append(@, cpu)])

\* _lscpu_get_numa_cpus on the text printed by lscpu --parse=NODE,CPU.
_lscpu_get_numa_cpus(numa_data) ==
    LET lines == Split(numa_data, 10)
    IN IF \E i \in 1..Len(lines) : LineUsed(lines[i]) /\ ~LineOk(lines[i]) THEN Fail
       ELSE LET res == NumaLists(lines, <<>>)
            IN Ok([i \in 1..Len(res) |-> <<res[i][1], CpuString(res[i][2])>>])

\* numa_to_cpus.get(int(numa_node))
CoresOf(numa_map, numa_node) ==
    IF HasKey(numa_map, numa_node) THEN Some(Get(numa_map, numa_node)) ELSE None

\* _rocm_smi_get_cores: numa_node is None when "(topology) numa node" is
\* missing, and int("") raises.
_rocm_smi_get_cores(rsmi_dict, numa_map) ==
    IF \E i \in 1..Len(rsmi_dict) : rsmi_dict[i][2] = None THEN Fail
    ELSE Ok([i \in 1..Len(rsmi_dict) |->
               <<rsmi_dict[i][1], [Cores |-> CoresOf(numa_map, rsmi_dict[i][2][1])]>>])

(***************************************************************************)
(* Join and normalisation (get_gres_conf, before printing).                *)
(***************************************************************************)
\* {k: v for d in dicts for k, v in d[key].items()}: a later dict wins.
RECURSIVE MergeKey(_, _, _)
MergeKey(dicts, key, n) ==
    IF n = 1 THEN Get(dicts[1], key)
    ELSE Get(dicts[n], key) @@ MergeKey(dicts, key, n - 1)

\* A join over the keys all the dicts share, which never raises.
MergeCommonKeys(dicts) ==
    LET common == SelectSeq(dicts[1],
                            LAMBDA item : \A n \in 1..Len(dicts) : HasKey(dicts[n], item[1]))
    IN Ok([i \in 1..Len(common) |-> <<common[i][1], MergeKey(dicts, common[i][1], Len(dicts))>>])

\* d[key] raises KeyError when a key of dicts[0] is missing from d.
MergeOk(dicts) ==
    \A i \in 1..Len(dicts[1]) : \A n \in 1..Len(dicts) : HasKey(dicts[n], dicts[1][i][1])

\* _merge_dicts
_merge_dicts(dicts) ==
    IF ~MergeOk(dicts) THEN Fail
    ELSE Ok([i \in 1..Len(dicts[1]) |->
               <<dicts[1][i][1], MergeKey(dicts, dicts[1][i][1], Len(dicts))>>])

\* os.uname()[1].split(".")[0]
Hostname(nodename) == Split(nodename, 46)[1]

\* gres_dict[key].update({...})
AddConstants(val, hostname) ==
    [Name |-> S_GPU, NodeName |-> hostname, Autodetect |-> S_OFF, Count |-> 1,
     Flags |-> S_AMD_GPU_ENV] @@ val

\* A sort by unique id instead of serial number.
SortKeyUuid(item) == item[2].UUID

\* The sort key of the records.
SortKey(item) == item[2].Serial

\* sorted(gres_dict.items(), key=...): stable.
RECURSIVE InsertItem(_, _)
InsertItem(sorted, x) ==
    IF sorted = <<>> THEN <<x>>
    ELSE IF StrLess(SortKey(x), SortKey(Head(sorted))) THEN <<x>> \o sorted
    ELSE <<Head(sorted)>> \o InsertItem(Tail(sorted), x)

RECURSIVE SortItems(_)
SortItems(items) ==
    IF items = <<>> THEN <<>>
    ELSE InsertItem(SortItems(SubSeq(items, 1, Len(items) - 1)), items[Len(items)])

\* zip(a, b): as long as the shorter of the two.
Zip(a, b) == [i \in 1..Min(Len(a), Len(b)) |-> <<a[i], b[i]>>]

\* (serial, link) < (serial, link): Python's tuple order.
PairLess(a, b) == StrLess(a[1], b[1]) \/ (a[1] = b[1] /\ StrLess(a[2], b[2]))

RECURSIVE InsertPair(_, _)
InsertPair(sorted, x) ==
    IF sorted = <<>> THEN <<x>>
    ELSE IF PairLess(x, Head(sorted)) THEN <<x>> \o sorted
    ELSE <<Head(sorted)>> \o InsertPair(Tail(sorted), x)

RECURSIVE SortPairs(_)
SortPairs(pairs) ==
    IF pairs = <<>> THEN <<>>
    ELSE InsertPair(SortPairs(SubSeq(pairs, 1, Len(pairs) - 1)), pairs[Len(pairs)])

\* [x for _, x in sorted(zip([val["Serial"] for val in serial.values()], val["Links"]))]
PermuteLinks(serial_dict, links_list) ==
    LET sorted == SortPairs(Zip([i \in 1..Len(serial_dict) |-> serial_dict[i][2].Serial],
                                links_list))
    IN [i \in 1..Len(sorted) |-> sorted[i][2]]

\* Lines 346-369: constants, sort by serial, rearrangement of every Links.
Normalise(merged, serial_dict, nodename) ==
    LET withConst == [i \in 1..Len(merged) |->
                        <<merged[i][1], AddConstants(merged[i][2], Hostname(nodename))>>]
        sorted == SortItems(withConst)
    IN [i \in 1..Len(sorted) |->
          <<sorted[i][1],
            [sorted[i][2] EXCEPT !.Links = PermuteLinks(serial_dict, sorted[i][2].Links)]>>]

(***************************************************************************)
(* The output formatter.                                                   *)
(***************************************************************************)
\* Lines 372-373: val["Links"] = ",".join(val["Links"]) in every record.
JoinLinks(gres) ==
    [i \in 1..Len(gres) |-> <<gres[i][1], [gres[i][2] EXCEPT !.Links = Join(@, S_COMMA)]>>]

\* val.get(subkey), as the text the f-string prints; None when absent.
FieldText(val, subkey) ==
    CASE subkey = "NodeName" -> Some(val.NodeName)
      [] subkey = "Name" -> Some(val.Name)
      [] subkey = "Type" -> Some(val.Type)
      [] subkey = "Autodetect" -> Some(val.Autodetect)
      [] subkey = "Count" -> Some(Str(val.Count))
      [] subkey = "Cores" -> val.Cores
      [] subkey = "Links" -> Some(val.Links)
      [] subkey = "Flags" -> Some(val.Flags)
      [] subkey = "File" -> Some(val.File)

\* The subkey=value pairs of one line, in the order of _GRES_FIELDS_ORDER.
RECURSIVE LineFields(_, _)
LineFields(val, order) ==
    IF order = <<>> THEN <<>>
    ELSE LET rest == LineFields(val, Tail(order))
             t == FieldText(val, Head(order))
         IN IF t # None THEN <<<<Head(order), t[1]>>>> \o rest ELSE rest

GresLine(val) == [kind |-> "gres", fields |-> LineFields(val, _GRES_FIELDS_ORDER)]

\* The clock has a tick of half a second; the date is printed to the second.
TicksPerSecond == 2

\* A format that also prints the fraction of the second ("%H:%M:%S.%f").
StrftimeFraction(tick) == Str(tick)

\* strftime("%Y-%m-%d %H:%M:%S")
Strftime(tick) == Str(tick \div TicksPerSecond)

\* "# GPU {idx} with uuid=... and serial=..."
CmtLine(idx, val) ==
    [kind |-> "cmt",
     fields |-> << <<"idx", Str(idx)>>, <<"uuid", val.UUID>>, <<"serial", val.Serial>> >>]

RuleLine == [kind |-> "rule", fields |-> <<>>]
HostLine(nodename) == [kind |-> "host", fields |-> << <<"host", nodename>> >>]

GeneratedLine(script_name, tick) ==
    [kind |-> "generated",
     fields |-> << <<"script", script_name>>, <<"date", Strftime(tick)>> >>]

RECURSIVE GpuLines(_, _)
GpuLines(vals, idx) ==
    IF idx >= Len(vals) THEN <<>>
    ELSE <<CmtLine(idx, vals[idx + 1]), GresLine(vals[idx + 1])>> \o GpuLines(vals, idx + 1)

\* Everything get_gres_conf prints, from the records with Links joined.
Printed(gres, nodename, script_name, tick) ==
    <<RuleLine, HostLine(nodename), GeneratedLine(script_name, tick)>>
    \o GpuLines(Values(gres), 0) \o <<RuleLine>>

\* What the main program prints when the binary is missing.
Diagnostic(rocm_path) ==
    << [kind |-> "diag", fields |-> << <<"missing", _RSMI_BIN(rocm_path)>> >>],
       [kind |-> "diag", fields |-> << <<"set", S_ROCM_PATH>> >>],
       [kind |-> "diag", fields |-> << <<"example", S_ROCM_PATH>> >>] >>

(***************************************************************************)
(* The environment of a run: what the tools, the file system and the host  *)
(* report.  Card k has the serial, unique id, PCI bus and card series      *)
(* below unless a family of environments says otherwise.                   *)
(***************************************************************************)
Cards(n) == [i \in 1..n |-> i - 1]
Perms(n) == {p \in [1..n -> 0..(n - 1)] : \A i, j \in 1..n : i # j => p[i] # p[j]}
Pairs(n) == (0..(n - 1)) \X (0..(n - 1))

\* "C", "D", ...
SerialOf(k) == <<67 + k>>
\* "A", "AB", "B"
Serials == {<<65>>, <<65, 66>>, <<66>>}
\* "0x0", "0x1", ...
UuidOf(k) == <<48, 120>> \o Str(k)
\* "0000:C3:00.0", "0000:D3:00.0", ...
BusOf(k) == <<48, 48, 48, 48, 58, 67 + k, 51, 58, 48, 48, 46, 48>>
\* "Instinct MI250X" for card 0, "Instinct FutureChip" for the others
SeriesOf(k) ==
    IF k = 0 THEN <<73, 110, 115, 116, 105, 110, 99, 116, 32, 77, 73, 50, 53, 48, 88>>
    ELSE <<73, 110, 115, 116, 105, 110, 99, 116, 32, 70, 117, 116, 117, 114, 101, 67, 104, 105, 112>>
NumaOf(k) == k % 2

\* /dev/dri/by-path/pci-0000:c3:00.0-render -> /renderD128, ...
SymlinkOf(k) ==
    << S_BY_PATH \o <<48, 48, 48, 48, 58, 99 + k, 51, 58, 48, 48, 46, 48>> \o S_RENDER,
       <<47, 114, 101, 110, 100, 101, 114, 68>> \o Str(128 + k) >>
Symlinks == [i \in 1..(MaxGpu + 1) |-> SymlinkOf(i - 1)]

\* The text of lscpu --parse=NODE,CPU for a list of <<node, cpu>>.
RECURSIVE LscpuBody(_)
LscpuBody(lines) ==
    IF lines = <<>> THEN <<>>
    ELSE Str(Head(lines)[1]) \o S_COMMA \o Str(Head(lines)[2]) \o <<10>> \o LscpuBody(Tail(lines))
LscpuText(lines) == <<35, 32, 78, 79, 68, 69, 44, 67, 80, 85, 10>> \o LscpuBody(lines)

\* The JSON of one query: the field of every card of keys, in that order.
DictOf(keys, field) == [i \in 1..Len(keys) |-> <<keys[i], Some(field[keys[i]])>>]
SerialField == [k \in 0..MaxGpu |-> SerialOf(k)]
UuidField == [k \in 0..MaxGpu |-> UuidOf(k)]
BusField == [k \in 0..MaxGpu |-> BusOf(k)]
SeriesField == [k \in 0..MaxGpu |-> SeriesOf(k)]
NumaField == [k \in 0..MaxGpu |-> NumaOf(k)]

\* A report with one key per pair i < j, all PCIE, as rocm-smi prints it.
UpperLinks(n) == [p \in Pairs(n) |-> IF p[1] < p[2] THEN S_PCIE ELSE <<>>]

DefaultEnv(n) ==
    [exists |-> TRUE,
     rocm_path |-> <<47, 111, 112, 116, 47, 114, 111, 99, 109>>,
     nodename |-> <<110, 49, 46, 104, 112, 99>>,
     script_name |-> <<97, 109, 100, 95, 103, 114, 101, 115, 95, 98, 117, 105, 108, 100, 101, 114, 46, 112, 121>>,
     showserial |-> DictOf(Cards(n), SerialField),
     showuniqueid |-> DictOf(Cards(n), UuidField),
     showbus |-> DictOf(Cards(n), BusField),
     showtopo |-> [system |-> TRUE, cards |-> Cards(n), link |-> UpperLinks(n)],
     showproductname |-> DictOf(Cards(n), SeriesField),
     showtoponuma |-> DictOf(Cards(n), NumaField),
     lscpu |-> LscpuText(<< <<0, 0>>, <<0, 1>>, <<1, 2>>, <<1, 3>> >>),
     symlinks |-> Symlinks]

\* The binary is missing, or the by-path links are.
MissingBinaryEnv(n) == [DefaultEnv(n) EXCEPT !.exists = FALSE]
MissingLinksEnv(n) == [DefaultEnv(n) EXCEPT !.symlinks = <<>>]

\* Any key order of the bus and serial queries, any serials, and a report
\* with one link type per pair i < j.
UpperPairs(n) == {p \in Pairs(n) : p[1] < p[2]}
SerialEnv(n, busOrder, serOrder, sv, tri) ==
    [DefaultEnv(n) EXCEPT
       !.showbus = DictOf(busOrder, BusField),
       !.showserial = [i \in 1..n |-> <<serOrder[i], Some(sv[serOrder[i]])>>],
       !.showtopo.link = [p \in Pairs(n) |-> IF p[1] < p[2] THEN tri[p] ELSE <<>>]]

\* Any topology report: every "link type between drm devices i and j" key
\* is absent (""), PCIE or XGMI; or a report without "system".
LinkTexts == {<<>>, S_PCIE, S_XGMI}
TopoEnv(n, link) == [DefaultEnv(n) EXCEPT !.showtopo.link = link]
NoSystemEnv(n) == [DefaultEnv(n) EXCEPT !.showtopo.system = FALSE]

\* One query may lack its last card, report one card more, or lack the
\* field of its first card.
Queries == {"serial", "uuid", "bus", "topo", "product", "numa"}
Defects == {"ok", "missing", "extra", "nofield"}

Defect(d, kind, n, field) ==
    CASE kind = "ok" -> d
      [] kind = "missing" -> SubSeq(d, 1, Len(d) - 1)
      [] kind = "extra" -> Append(d, <<n, Some(field[n])>>)
      [] kind = "nofield" -> [d EXCEPT ![1][2] = None]

TopoDefect(kind, n) ==
    LET nb == CASE kind = "missing" -> n - 1 [] kind = "extra" -> n + 1 [] OTHER -> n
    IN [system |-> kind # "nofield", cards |-> Cards(nb), link |-> UpperLinks(nb)]

KeyEnv(n, df) ==
    [DefaultEnv(n) EXCEPT
       !.showserial = Defect(@, df["serial"], n, SerialField),
       !.showuniqueid = Defect(@, df["uuid"], n, UuidField),
       !.showbus = Defect(@, df["bus"], n, BusField),
       !.showtopo = TopoDefect(df["topo"], n),
       !.showproductname = Defect(@, df["product"], n, SeriesField),
       !.showtoponuma = Defect(@, df["numa"], n, NumaField)]

\* Any listing of up to MaxLines CPUs, each on one of two nodes, in any
\* order, and any of the two nodes for every GPU.
CpuIds == {2, 3, 4, 10}
Distinct(c) == \A i, j \in DOMAIN c : i # j => c[i] # c[j]
NumaEnv(n, nodes, cpus, node) ==
    [DefaultEnv(n) EXCEPT
       !.lscpu = LscpuText([i \in DOMAIN cpus |-> <<nodes[i], cpus[i]>>]),
       !.showtoponuma = [i \in 1..n |-> <<i - 1, Some(node[i])>>]]

\* A listing of one CPU whose two numbers are written as any text: with
\* white space around, a sign, an underscore, a digit beyond ASCII, or a text
\* int() refuses (the last one for its number of digits); every line ends with "\n" or with "\r\n", and the listing
\* may end with an empty line.
IntTexts ==
    { <<48>>, <<32, 48>>, <<48, 9>>, <<160, 48>>, <<43, 48>>, <<45, 49>>,
      <<49, 95, 48>>, <<1633>>,
      <<>>, <<95, 49>>, <<49, 95, 95, 48>>, <<43, 32, 49>>, <<28, 48>>, <<48, 120>>,
      [i \in 1..(MaxStrDigits + 1) |-> 49] }
LineEnds == { <<10>>, <<13, 10>> }
StyledText(nodeText, cpuText, eol, blank) ==
    <<35, 32, 78, 79, 68, 69, 44, 67, 80, 85>> \o eol
       \o nodeText \o S_COMMA \o cpuText \o eol
       \o (IF blank THEN eol ELSE <<>>)
StyledEnv(nodeText, cpuText, eol, blank) ==
    [DefaultEnv(1) EXCEPT !.lscpu = StyledText(nodeText, cpuText, eol, blank)]

\* One GPU whose PCI bus and card series hold letters beyond ASCII, and one
\* by-path link, named in lower case one way or another.
BusLetters == {67, 201, 304, 931, 7838, 223}
LinkLetters == {<<99>>, <<233>>, <<201>>, <<105, 775>>, <<963>>, <<962>>, <<223>>}
\* "Instinct MI250X", "Instinct <E acute>lite", "MI<Sigma>", "<Sigma>X", "<I dot>"
SeriesTexts ==
    { SeriesOf(0),
      <<73, 110, 115, 116, 105, 110, 99, 116, 32, 201, 108, 105, 116, 101>>,
      <<77, 73, 931>>, <<931, 88>>, <<304>> }
CasedEnv(busLetter, linkLetters, series) ==
    [DefaultEnv(1) EXCEPT
       !.showbus = << <<0, Some(<<48, 48, 48, 48, 58, busLetter, 51, 58, 48, 48, 46, 48>>)>> >>,
       !.symlinks = << << S_BY_PATH \o <<48, 48, 48, 48, 58>> \o linkLetters
                            \o <<51, 58, 48, 48, 46, 48>> \o S_RENDER,
                          <<47, 114, 101, 110, 100, 101, 114, 68, 49, 50, 56>> >> >>,
       !.showproductname = << <<0, Some(series)>> >>]

(***************************************************************************)
(* The run of the script.                                                  *)
(***************************************************************************)
vars == <<env, pc, calls, serial, uuid, file, links, type, cores, numa_to_cpus,
          gres_dict, out, status, clock, run, prev_out, prev_clock, prev_script>>

locals == <<serial, uuid, file, links, type, cores, numa_to_cpus, gres_dict>>

Start(e) ==
    /\ env = e
    /\ pc = "main"
    /\ calls = <<>>
    /\ serial = <<>> /\ uuid = <<>> /\ file = <<>> /\ links = <<>>
    /\ type = <<>> /\ cores = <<>> /\ numa_to_cpus = <<>> /\ gres_dict = <<>>
    /\ out = <<>>
    /\ status = -1
    /\ clock = 0
    /\ run = 1
    /\ prev_out = <<>>
    /\ prev_clock = 0
    /\ prev_script = e.script_name

InitBroken == \E n \in 1..MaxGpu : Start(MissingBinaryEnv(n)) \/ Start(MissingLinksEnv(n))

InitSerial ==
    \E n \in 1..MaxGpu : \E busOrder \in Perms(n), serOrder \in Perms(n) :
       \E sv \in [0..(n - 1) -> Serials], tri \in [UpperPairs(n) -> {S_PCIE, S_XGMI}] :
          Start(SerialEnv(n, busOrder, serOrder, sv, tri))

InitTopo ==
    \E n \in 0..MaxGpu :
       \/ \E link \in [Pairs(n) -> LinkTexts] : Start(TopoEnv(n, link))
       \/ Start(NoSystemEnv(n))

InitKeys == \E n \in 1..MaxGpu : \E df \in [Queries -> Defects] : Start(KeyEnv(n, df))

InitNuma ==
    \E n \in 1..Min(MaxGpu, 2) : \E len \in 0..Min(MaxLines, Cardinality(CpuIds)) :
       \E nodes \in [1..len -> 0..1], cpus \in [1..len -> CpuIds], node \in [1..n -> 0..1] :
          Distinct(cpus) /\ Start(NumaEnv(n, nodes, cpus, node))

InitStyled ==
    \E nodeText \in IntTexts, cpuText \in IntTexts, eol \in LineEnds, blank \in BOOLEAN :
       Start(StyledEnv(nodeText, cpuText, eol, blank))

InitCased ==
    \E busLetter \in BusLetters, linkLetters \in LinkLetters, series \in SeriesTexts :
       Start(CasedEnv(busLetter, linkLetters, series))

Init ==
    InitBroken \/ InitSerial \/ InitTopo \/ InitKeys \/ InitNuma \/ InitStyled \/ InitCased

\* An uncaught exception: a traceback on standard error, exit status 1.
Raise ==
    /\ pc' = "aborted"
    /\ status' = 1
    /\ UNCHANGED <<locals, out>>

\* A check that never finds the binary missing.
BinaryAssumed(e) == TRUE

\* os.path.exists(_RSMI_BIN)
BinaryExists(e) == e.exists

\* __main__: the check of the binary, then get_gres_conf or exit(-1).
Main ==
    /\ pc = "main"
    /\ IF BinaryExists(env)
       THEN /\ pc' = "serial"
            /\ UNCHANGED <<out, status>>
       ELSE /\ pc' = "exited"
            /\ out' = Diagnostic(env.rocm_path)
            /\ status' = (-1) % 256
    /\ UNCHANGED <<env, calls, locals, clock, run, prev_out, prev_clock, prev_script>>

GetSerial ==
    /\ pc = "serial"
    /\ calls' = Append(calls, "showserial")
    /\ LET r == _rocm_smi_get_serial(env.showserial)
       IN IF r.ok
          THEN /\ serial' = r.res /\ pc' = "uuid"
               /\ UNCHANGED <<uuid, file, links, type, cores, numa_to_cpus, gres_dict, out, status>>
          ELSE Raise
    /\ UNCHANGED <<env, clock, run, prev_out, prev_clock, prev_script>>

GetUuid ==
    /\ pc = "uuid"
    /\ calls' = Append(calls, "showuniqueid")
    /\ LET r == _rocm_smi_get_uuid(env.showuniqueid)
       IN IF r.ok
          THEN /\ uuid' = r.res /\ pc' = "file"
               /\ UNCHANGED <<serial, file, links, type, cores, numa_to_cpus, gres_dict, out, status>>
          ELSE Raise
    /\ UNCHANGED <<env, clock, run, prev_out, prev_clock, prev_script>>

GetFile ==
    /\ pc = "file"
    /\ calls' = Append(calls, "showbus")
    /\ LET r == _rocm_smi_get_file(env.showbus, env.symlinks)
       IN IF r.ok
          THEN /\ file' = r.res /\ pc' = "links"
               /\ UNCHANGED <<serial, uuid, links, type, cores, numa_to_cpus, gres_dict, out, status>>
          ELSE Raise
    /\ UNCHANGED <<env, clock, run, prev_out, prev_clock, prev_script>>

GetLinks ==
    /\ pc = "links"
    /\ calls' = Append(calls, "showtopo")
    /\ LET r == _rocm_smi_get_links(env.showtopo)
       IN IF r.ok
          THEN /\ links' = r.res /\ pc' = "type"
               /\ UNCHANGED <<serial, uuid, file, type, cores, numa_to_cpus, gres_dict, out, status>>
          ELSE Raise
    /\ UNCHANGED <<env, clock, run, prev_out, prev_clock, prev_script>>

GetType ==
    /\ pc = "type"
    /\ calls' = Append(calls, "showproductname")
    /\ LET r == _rocm_smi_get_type(env.showproductname)
       IN IF r.ok
          THEN /\ type' = r.res /\ pc' = "cores"
               /\ UNCHANGED <<serial, uuid, file, links, cores, numa_to_cpus, gres_dict, out, status>>
          ELSE Raise
    /\ UNCHANGED <<env, clock, run, prev_out, prev_clock, prev_script>>

\* _rocm_smi_get_cores: rocm-smi --showtoponuma, then lscpu, then the loop.
\* numa_to_cpus is assigned (line 318) before the loop can raise (line 325).
GetCores ==
    /\ pc = "cores"
    /\ calls' = calls \o <<"showtoponuma", "lscpu">>
    /\ LET n == _lscpu_get_numa_cpus(env.lscpu)
           r == IF n.ok THEN _rocm_smi_get_cores(env.showtoponuma, n.res) ELSE Fail
       IN IF r.ok
          THEN /\ numa_to_cpus' = n.res /\ cores' = r.res /\ pc' = "merge"
               /\ UNCHANGED <<serial, uuid, file, links, type, gres_dict, out, status>>
          ELSE IF n.ok
          THEN /\ numa_to_cpus' = n.res /\ pc' = "aborted" /\ status' = 1
               /\ UNCHANGED <<serial, uuid, file, links, type, cores, gres_dict, out>>
          ELSE Raise
    /\ UNCHANGED <<env, clock, run, prev_out, prev_clock, prev_script>>

\* Lines 343-369: the join, the constants, the sort and the rearrangement.
Merge ==
    /\ pc = "merge"
    /\ LET m == _merge_dicts(<<file, links, cores, type, uuid, serial>>)
       IN IF m.ok
          THEN /\ gres_dict' = Normalise(m.res, serial, env.nodename)
               /\ pc' = "print"
               /\ UNCHANGED <<serial, uuid, file, links, type, cores, numa_to_cpus, out, status>>
          ELSE Raise
    /\ UNCHANGED <<env, calls, clock, run, prev_out, prev_clock, prev_script>>

\* Lines 371-400: every Links is joined, the wall clock is read once (it may
\* show any time, earlier than the last reading too), then everything is
\* printed.
PrintConf ==
    /\ pc = "print"
    /\ gres_dict' = JoinLinks(gres_dict)
    /\ \E tick \in 0..MaxTick :
          /\ clock' = tick
          /\ out' = Printed(gres_dict', env.nodename, env.script_name, tick)
    /\ pc' = "done"
    /\ status' = 0
    /\ UNCHANGED <<env, calls, serial, uuid, file, links, type, cores, numa_to_cpus,
                   run, prev_out, prev_clock, prev_script>>

Next ==
    \/ Main
    \/ GetSerial
    \/ GetUuid
    \/ GetFile
    \/ GetLinks
    \/ GetType
    \/ GetCores
    \/ Merge
    \/ PrintConf

Spec == Init /\ [][Next]_vars

Ended == pc \in {"done", "aborted", "exited"}

(***************************************************************************)
(* Two runs that receive the same tool outputs, host name and symlinks.    *)
(* The script may have another file name in the second run (line 377 reads *)
(* it from __file__), and the clock is read again.                         *)
(***************************************************************************)
\* "amd_gres_builder.py", "gres.py"
ScriptNames ==
    { <<97, 109, 100, 95, 103, 114, 101, 115, 95, 98, 117, 105, 108, 100, 101, 114, 46, 112, 121>>,
      <<103, 114, 101, 115, 46, 112, 121>> }

Rerun ==
    /\ Ended
    /\ run = 1
    /\ run' = 2
    /\ prev_out' = out
    /\ prev_clock' = clock
    /\ prev_script' = env.script_name
    /\ \E name \in ScriptNames : env' = [env EXCEPT !.script_name = name]
    /\ pc' = "main"
    /\ calls' = <<>>
    /\ serial' = <<>> /\ uuid' = <<>> /\ file' = <<>> /\ links' = <<>>
    /\ type' = <<>> /\ cores' = <<>> /\ numa_to_cpus' = <<>> /\ gres_dict' = <<>>
    /\ out' = <<>>
    /\ status' = -1
    /\ UNCHANGED clock

NextRerun == Next \/ Rerun

\* Any key order of the bus and serial queries and any serials, all links PCIE.
InitRerunSerial ==
    \E n \in 1..MaxGpu : \E busOrder \in Perms(n), serOrder \in Perms(n) :
       \E sv \in [0..(n - 1) -> Serials] :
          Start(SerialEnv(n, busOrder, serOrder, sv, [p \in UpperPairs(n) |-> S_PCIE]))

InitRerun == InitBroken \/ InitRerunSerial \/ InitNuma

SpecRerun == InitRerun /\ [][NextRerun]_vars

(***************************************************************************)
(* Properties.                                                             *)
(***************************************************************************)
Joined == pc \in {"print", "done"}
SixDicts == <<file, links, cores, type, uuid, serial>>
SameKeys == \A n \in 1..6 : KeySet(SixDicts[n]) = KeySet(file)
FileKeysEverywhere == \A n \in 1..6 : KeySet(file) \subseteq KeySet(SixDicts[n])

\* The link code the matrix of _rocm_smi_get_links holds for cards a and b.
MatrixLink(a, b) == Get(links, a).Links[b + 1]

GresLines == SelectSeq(out, LAMBDA l : l.kind = "gres")
CmtLines == SelectSeq(out, LAMBDA l : l.kind = "cmt")
FieldNames(line) == [i \in 1..Len(line.fields) |-> line.fields[i][1]]
FieldOf(line, name) == Get(line.fields, name)

\* The Links vector of a record: a list once rearranged, and the entries of
\* the text "a,b,..." once joined for printing.
LinksVector(val) == IF pc = "done" THEN Split(val.Links, 44) ELSE val.Links

\* C1: once the records are sorted and every Links is rearranged, and in the
\* records that are printed, entry q of the record at output position p is
\* the link code the matrix holds for the GPU at position p and the GPU at
\* position q (stated for the runs in which the six queries report the same
\* cards).
C1_LinksFollowOutputOrder ==
    Joined /\ SameKeys =>
       \A p, q \in 1..Len(gres_dict) :
          /\ q <= Len(LinksVector(gres_dict[p][2]))
          /\ LinksVector(gres_dict[p][2])[q] = MatrixLink(gres_dict[p][1], gres_dict[q][1])

\* C2: entry i of GPU i's link vector is "-1", in the matrix returned by
\* _rocm_smi_get_links and in the Links field of the resource line printed at
\* output position i.
C2_SelfLinkIsSentinel ==
    /\ \A i \in 1..Len(links) : links[i][2].Links[i] = S_MINUS1
    /\ pc = "done" /\ SameKeys =>
          \A p \in 1..Len(GresLines) :
             LET emitted == Split(FieldOf(GresLines[p], "Links"), 44)
             IN p <= Len(emitted) /\ emitted[p] = S_MINUS1

\* C3: the matrix returned by _rocm_smi_get_links is symmetric: entry j of
\* GPU i's link vector equals entry i of GPU j's link vector.
C3_LinkMatrixSymmetric ==
    \A i, j \in 1..Len(links) : links[i][2].Links[j] = links[j][2].Links[i]

\* C3 witness: the matrix was built from a report that gives the two
\* directions of a pair different link types.
C3_Witness ==
    /\ pc = "type"
    /\ \E i, j \in 0..(Len(links) - 1) :
          /\ i # j
          /\ env.showtopo.link[<<i, j>>] = S_PCIE
          /\ env.showtopo.link[<<j, i>>] = S_XGMI

\* C4: a run prints no resource line, or every resource line printed carries
\* all nine fields.
C4_EveryLineComplete ==
    \A i \in 1..Len(out) :
       out[i].kind = "gres" => FieldNames(out[i]) = _GRES_FIELDS_ORDER

\* The second of the clock a tick falls in.
SecondOf(tick) == tick \div TicksPerSecond
SameSecond == SecondOf(clock) = SecondOf(prev_clock)

\* The banner line "# Generated by <script> on <date>" of an output.
BannerLine(o) == o[3]

RECURSIVE Ascending(_)
Ascending(S) ==
    IF S = {} THEN <<>>
    ELSE LET m == CHOOSE x \in S : \A y \in S : x <= y
         IN <<Str(m)>> \o Ascending(S \ {m})
ExpectedCpuString(S) ==
    LET lo == CHOOSE x \in S : \A y \in S : x <= y
        hi == CHOOSE x \in S : \A y \in S : x >= y
    IN IF S = lo..hi THEN Str(lo) \o S_DASH \o Str(hi)
       ELSE Join(Ascending(S), S_COMMA)
Listed == NumaLists(Split(env.lscpu, 10), <<>>)

\* C6: every node of the listing maps to "min-max" when its CPUs are the
\* run min..max, and otherwise to its CPUs joined by "," in ascending order.
C6_NumaStrings ==
    numa_to_cpus # <<>> =>
       \A i \in 1..Len(Listed) :
          /\ HasKey(numa_to_cpus, Listed[i][1])
          /\ Get(numa_to_cpus, Listed[i][1])
                = ExpectedCpuString({Listed[i][2][k] : k \in 1..Len(Listed[i][2])})

\* Positions of the names of a line in _GRES_FIELDS_ORDER.
OrderIndex(name) == CHOOSE k \in 1..Len(_GRES_FIELDS_ORDER) : _GRES_FIELDS_ORDER[k] = name
InFixedOrder(names) ==
    /\ \A i \in 1..Len(names) : \E k \in 1..Len(_GRES_FIELDS_ORDER) : _GRES_FIELDS_ORDER[k] = names[i]
    /\ \A i, j \in 1..Len(names) : i < j => OrderIndex(names[i]) < OrderIndex(names[j])
Omitted(line) ==
    {_GRES_FIELDS_ORDER[k] : k \in 1..Len(_GRES_FIELDS_ORDER)}
       \ {line.fields[i][1] : i \in 1..Len(line.fields)}

\* C7: a completed run with N cards in the bus query prints N resource
\* lines, each after a comment line, with the fields in the fixed order,
\* the four constant fields always there, a field left out only when its
\* value is None, and the lines in non-decreasing order of serial number.
C7_OneLinePerGpu ==
    pc = "done" =>
       LET N == Len(env.showbus)
       IN /\ Len(GresLines) = N
          /\ Len(out) = 2 * N + 4
          /\ \A k \in 1..N :
                LET cmt == out[2 * k + 2]
                    line == out[2 * k + 3]
                IN /\ cmt.kind = "cmt" /\ line.kind = "gres"
                   /\ InFixedOrder(FieldNames(line))
                   /\ HasKey(line.fields, "Name") /\ FieldOf(line, "Name") = S_GPU
                   /\ HasKey(line.fields, "Autodetect") /\ FieldOf(line, "Autodetect") = S_OFF
                   /\ HasKey(line.fields, "Count") /\ FieldOf(line, "Count") = S_1
                   /\ HasKey(line.fields, "Flags") /\ FieldOf(line, "Flags") = S_AMD_GPU_ENV
                   /\ Omitted(line) = (IF Get(cores, gres_dict[k][1]).Cores = None
                                       THEN {"Cores"} ELSE {})
                   /\ FieldOf(cmt, "serial") = Get(serial, gres_dict[k][1]).Serial
          /\ \A k \in 1..(N - 1) :
                StrLeq(FieldOf(out[2 * k + 2], "serial"), FieldOf(out[2 * k + 4], "serial"))

\* C7 witness: a completed run whose bus query lists two cards in
\* decreasing order of serial number, so that the sort reorders them.
C7_Witness ==
    /\ pc = "done"
    /\ Len(file) = 2
    /\ StrLess(Get(serial, file[2][1]).Serial, Get(serial, file[1][1]).Serial)
    /\ Len(GresLines) = 2

\* C8: with the binary missing the script prints the diagnostic (the path
\* and ROCM_PATH), exits with a non-zero status, invokes no tool and prints
\* no resource line; with the binary present no tool is invoked before the
\* check, and a completed run exits with status 0.
C8_Preflight ==
    /\ ~env.exists /\ pc # "main" =>
          /\ pc = "exited"
          /\ status \in 1..255
          /\ calls = <<>>
          /\ GresLines = <<>>
          /\ \E i \in 1..Len(out) : out[i].fields[1][2] = _RSMI_BIN(env.rocm_path)
          /\ \E i \in 1..Len(out) : out[i].fields[1][2] = S_ROCM_PATH
    /\ env.exists => pc # "exited"
    /\ pc = "main" => calls = <<>>
    /\ pc = "done" => status = 0

\* C8 witness: the script has exited on a missing binary.
C8_Witness == pc = "exited" /\ ~env.exists /\ out # <<>>

\* C9: off the diagonal the matrix returned by _rocm_smi_get_links holds a
\* real link code, "0" or "1", never "-1".
C9_OffDiagonalReal ==
    \A i, j \in 1..Len(links) : i # j => links[i][2].Links[j] \in {S_0, S_1}

\* C10: records are joined only when the six mappings have the same keys.
C10_JoinNeedsSameKeys == Joined => SameKeys

\* C10 amended: the join succeeds exactly when every key of the file mapping
\* is in the five other mappings, and then yields one record per key of the
\* file mapping; otherwise the run aborts and prints nothing.
C10_JoinNeedsFileKeys ==
    /\ [](Joined => /\ FileKeysEverywhere
                    /\ KeySet(gres_dict) = KeySet(file)
                    /\ Len(gres_dict) = Len(file))
    /\ [][pc = "merge" =>
             IF FileKeysEverywhere THEN pc' = "print"
             ELSE pc' = "aborted" /\ out' = <<>>]_vars

\* C10 witness: records were joined although the serial query reports a
\* card the bus query does not.
C10_Witness == Joined /\ KeySet(serial) # KeySet(file) /\ Len(gres_dict) > 0

====
